---- MODULE Spec2Model ----
(***************************************************************************)
(* Model of src/gpu/GrQuad.h: the quad type lattice, GrQuad / GrPerspQuad, *)
(* the type-tracking quad list GrQuadListBase (GrQuadList), and the        *)
(* anti-aliasing resolver GrResolveAATypeForQuad.                          *)
(*                                                                         *)
(* Floats are modelled by integers (1 stands for 1.f).  Two lists, "A" and *)
(* "B", are built by reserve, push_back and concat; either may be the      *)
(* argument of the other's concat.                                         *)
(***************************************************************************)
EXTENDS Integers, Sequences, FiniteSets, TLC

VARIABLES lists, lastOp, maxDeclared, backfills, pushedXY, dropped, aa, classified, bounded

vars == <<lists, lastOp, maxDeclared, backfills, pushedXY, dropped, aa, classified, bounded>>

(***************************************************************************)
(* Bounds of the model.                                                    *)
(***************************************************************************)
MaxCountA == 2
MaxCountB == 2

ListIds == {"A", "B"}

MaxCount(l) == IF l = "A" THEN MaxCountA ELSE MaxCountB

(***************************************************************************)
(* enum class GrQuadType                                                   *)
(***************************************************************************)
kRect == 0
kRectilinear == 1
kStandard == 2
kPerspective == 3
kLast == kPerspective

GrQuadType == kRect..kLast

MaxType(a, b) == IF a > b THEN a ELSE b

(***************************************************************************)
(* GrQuad and GrPerspQuad values.                                          *)
(***************************************************************************)
RectA == [fLeft |-> 0, fTop |-> 0, fRight |-> 2, fBottom |-> 2]

RectB == [fLeft |-> 0, fTop |-> 2, fRight |-> 4, fBottom |-> 6]

\* The rects of the GrQuad arguments of push_back; RectB is the geometry of
\* the GrPerspQuad argument that has perspective.
Rects == {RectA}

ReserveCounts == {0, 2}

XYOfQuad(q) == [fX |-> q.fX, fY |-> q.fY]

\* explicit GrQuad(const SkRect& rect)
GrQuadFromRect(rect) ==
    [fX |-> <<rect.fLeft, rect.fLeft, rect.fRight, rect.fRight>>,
     fY |-> <<rect.fTop, rect.fBottom, rect.fTop, rect.fBottom>>]

\* GrPerspQuad(const float xs[4], const float ys[4], const float ws[4])
GrPerspQuadFromArrays(xs, ys, ws) == [fX |-> xs, fY |-> ys, fW |-> ws]

GrQuadInputs == {GrQuadFromRect(r) : r \in Rects}

\* The GrPerspQuad arguments of push_back: one with all weights 1 and one
\* with perspective, of different x and y.
GrPerspQuadInputs ==
    {GrPerspQuadFromArrays(GrQuadFromRect(RectA).fX, GrQuadFromRect(RectA).fY,
                           <<1, 1, 1, 1>>),
     GrPerspQuadFromArrays(GrQuadFromRect(RectB).fX, GrQuadFromRect(RectB).fY,
                           <<2, 1, 2, 4>>)}

\* (w4f() != Sk4f(1.f)).anyTrue()
hasPerspective(q) == \E k \in 1..4 : q.fW[k] # 1

(***************************************************************************)
(* SkTArray helpers.                                                       *)
(***************************************************************************)
\* push_back_n(n, value): n copies of value
push_back_n_value(arr, n, value) == arr \o [k \in 1..n |-> value]

\* push_back_n(n, ptr): the first n elements of the array at ptr
push_back_n_array(arr, n, src) == arr \o SubSeq(src, 1, n)

\* The value a read of fWs at (1-based) position k produces; a read past the
\* end of the array is marked by OutOfRange.
OutOfRange == -1

ReadW(ws, k) == IF k \in 1..Len(ws) THEN ws[k] ELSE OutOfRange

kNoPerspectiveWs == <<1, 1, 1, 1>>

(***************************************************************************)
(* GrQuadListBase<void>: fXYs, fWs, fType.                                 *)
(***************************************************************************)
\* GrQuadListBase() : fType(GrQuadType::kRect) {}
NewList == [fXYs |-> <<>>, fWs |-> <<>>, fType |-> kRect]

count(L) == Len(L.fXYs)

quadType(L) == L.fType

\* GrPerspQuad operator[] (int i) const, i counted from 0
At(L, i) ==
    LET item == L.fXYs[i + 1]
    IN  IF L.fType = kPerspective
        THEN GrPerspQuadFromArrays(item.fX, item.fY,
                                   [k \in 1..4 |-> ReadW(L.fWs, 4 * i + k)])
        ELSE GrPerspQuadFromArrays(item.fX, item.fY, kNoPerspectiveWs)

UpgradeNeeded_Geq(L, type) == type >= L.fType

UpgradeNeeded_Differs(L, type) == type # L.fType

\* upgradeType: if (type > fType)
UpgradeNeeded(L, type) == type > L.fType

\* upgradeType: whether the call runs the backfill branch
\* (type > fType and type == GrQuadType::kPerspective).
Backfills(L, type) == UpgradeNeeded(L, type) /\ type = kPerspective

upgradeType_NoBackfill(L, type) ==
    IF UpgradeNeeded(L, type) THEN [L EXCEPT !.fType = type] ELSE L

upgradeType_ShortBackfill(L, type) ==
    IF UpgradeNeeded(L, type)
    THEN [L EXCEPT !.fType = type,
                   !.fWs = IF type = kPerspective
                           THEN push_back_n_value(@, count(L), 1)
                           ELSE @]
    ELSE L

\* void upgradeType(GrQuadType type)
upgradeType(L, type) ==
    IF UpgradeNeeded(L, type)
    THEN [L EXCEPT !.fType = type,
                   !.fWs = IF type = kPerspective
                           THEN push_back_n_value(@, 4 * count(L), 1)
                           ELSE @]
    ELSE L

pushBackImplQuad_NoWs(L, quad, type) ==
    LET U == upgradeType(L, type)
        item == [fX |-> quad.fX, fY |-> quad.fY]
    IN  [U EXCEPT !.fXYs = Append(@, item)]

\* QuadData<T>& pushBackImpl(const GrQuad& quad, GrQuadType type)
pushBackImplQuad(L, quad, type) ==
    LET U == upgradeType(L, type)
        item == [fX |-> quad.fX, fY |-> quad.fY]
    IN  [U EXCEPT !.fXYs = Append(@, item),
                  !.fWs = IF U.fType = kPerspective
                          THEN push_back_n_value(@, 4, 1)
                          ELSE @]

pushBackImplPersp_DropsW(L, quad, type) ==
    LET U == upgradeType(L, type)
        item == [fX |-> quad.fX, fY |-> quad.fY]
    IN  [U EXCEPT !.fXYs = Append(@, item),
                  !.fWs = IF U.fType = kPerspective
                          THEN push_back_n_value(@, 4, 1)
                          ELSE @]

pushBackImplPersp_KeepsW(L, quad, type) ==
    LET U == upgradeType(L, IF hasPerspective(quad) THEN kPerspective ELSE type)
        item == [fX |-> quad.fX, fY |-> quad.fY]
    IN  [U EXCEPT !.fXYs = Append(@, item),
                  !.fWs = IF U.fType = kPerspective
                          THEN push_back_n_array(@, 4, quad.fW)
                          ELSE @]

\* QuadData<T>& pushBackImpl(const GrPerspQuad& quad, GrQuadType type)
pushBackImplPersp(L, quad, type) ==
    LET U == upgradeType(L, type)
        item == [fX |-> quad.fX, fY |-> quad.fY]
    IN  [U EXCEPT !.fXYs = Append(@, item),
                  !.fWs = IF U.fType = kPerspective
                          THEN push_back_n_array(@, 4, quad.fW)
                          ELSE @]

concatImpl_NoUpgrade(L, that) ==
    [L EXCEPT !.fXYs = push_back_n_array(@, Len(that.fXYs), that.fXYs),
              !.fWs = IF L.fType = kPerspective
                      THEN IF that.fType = kPerspective
                           THEN push_back_n_array(@, Len(that.fWs), that.fWs)
                           ELSE push_back_n_value(@, 4 * count(that), 1)
                      ELSE @]

concatImpl_NoImplicitOnes(L, that) ==
    LET U == upgradeType(L, that.fType)
    IN  [U EXCEPT !.fXYs = push_back_n_array(@, Len(that.fXYs), that.fXYs),
                  !.fWs = IF U.fType = kPerspective
                          THEN push_back_n_array(@, Len(that.fWs), that.fWs)
                          ELSE @]

concatImpl_DropsThatWs(L, that) ==
    LET U == upgradeType(L, that.fType)
    IN  [U EXCEPT !.fXYs = push_back_n_array(@, Len(that.fXYs), that.fXYs),
                  !.fWs = IF U.fType = kPerspective
                          THEN push_back_n_value(@, 4 * count(that), 1)
                          ELSE @]

\* void concatImpl(const GrQuadListBase<T>& that)
concatImpl(L, that) ==
    LET U == upgradeType(L, that.fType)
    IN  [U EXCEPT !.fXYs = push_back_n_array(@, Len(that.fXYs), that.fXYs),
                  !.fWs = IF U.fType = kPerspective
                          THEN IF that.fType = kPerspective
                               THEN push_back_n_array(@, Len(that.fWs), that.fWs)
                               ELSE push_back_n_value(@, 4 * count(that), 1)
                          ELSE @]

reserve_Upgrades(L, n, forType) ==
    [list |-> upgradeType(L, forType),
     fXYs |-> n,
     fWs |-> IF forType = kPerspective \/ L.fType = kPerspective THEN 4 * n ELSE 0]

reserve_Resizes(L, n, forType) ==
    [list |-> IF forType = kPerspective \/ L.fType = kPerspective
              THEN [L EXCEPT !.fWs = push_back_n_value(@, 4 * n, 1)]
              ELSE L,
     fXYs |-> n,
     fWs |-> IF forType = kPerspective \/ L.fType = kPerspective THEN 4 * n ELSE 0]

\* void reserve(int count, GrQuadType forType): the list afterwards (the
\* SkTArray reserve calls change no element and no count) and the sizes
\* handed to fXYs.reserve and fWs.reserve (0 when fWs.reserve is not called).
reserve(L, n, forType) ==
    [list |-> L,
     fXYs |-> n,
     fWs |-> IF forType = kPerspective \/ L.fType = kPerspective THEN 4 * n ELSE 0]

(***************************************************************************)
(* State machine of the lists.                                             *)
(*   lists       the two lists                                             *)
(*   lastOp      the last operation, its arguments, the count of its       *)
(*               target before it ran and whether it ran the backfill      *)
(*               branch of upgradeType; for reserve, the sizes reserved    *)
(*   maxDeclared per list, the maximum of kRect, the declared types pushed *)
(*               and the types of the lists concatenated                   *)
(*   backfills   per list, how often upgradeType ran its backfill branch   *)
(*   pushedXY    per list, the x and y handed in, in insertion order       *)
(*   dropped     per list, the indices of the entries pushed as a          *)
(*               GrPerspQuad with perspective while the list stayed below  *)
(*               kPerspective                                              *)
(***************************************************************************)
NoQuad == [fX |-> <<>>, fY |-> <<>>, fW |-> <<>>]

NoOp == [op |-> "new", dst |-> "A", type |-> kRect, quad |-> NoQuad,
         n |-> 0, reserved |-> [fXYs |-> 0, fWs |-> 0],
         backfilled |-> FALSE, prevCount |-> 0, thatCount |-> 0]

MaxBackfills == 2

Bump(c) == IF c < MaxBackfills THEN c + 1 ELSE c

XYOf(q) == [fX |-> q.fX, fY |-> q.fY]

(***************************************************************************)
(* GrResolveAATypeForQuad.  The header only declares it; the policy is the *)
(* one of the design document, section 4.3: a requested "none" clears the  *)
(* edge flags whatever the quad type; a kRect quad on which anti-aliasing  *)
(* has no effect resolves to "none" and no edges; every other request is   *)
(* passed through.  The quad enters through quad.aaHasEffectOnRect().      *)
(***************************************************************************)
GrAAType == {"none", "coverage"}

Edges == {"left", "top", "right", "bottom"}

GrQuadAAFlags == SUBSET Edges

kNoneFlags == {}

kAllFlags == Edges

GrResolveAATypeForQuad_PassThrough(reqAAType, reqEdgeFlags, aaHasEffect, knownQuadType) ==
    [outAAType |-> reqAAType, outEdgeFlags |-> reqEdgeFlags]

GrResolveAATypeForQuad_AnyType(reqAAType, reqEdgeFlags, aaHasEffect, knownQuadType) ==
    IF reqAAType = "none" \/ ~aaHasEffect
    THEN [outAAType |-> "none", outEdgeFlags |-> kNoneFlags]
    ELSE [outAAType |-> reqAAType, outEdgeFlags |-> reqEdgeFlags]

GrResolveAATypeForQuad_KeepsFlags(reqAAType, reqEdgeFlags, aaHasEffect, knownQuadType) ==
    IF knownQuadType = kRect /\ ~aaHasEffect
    THEN [outAAType |-> "none", outEdgeFlags |-> kNoneFlags]
    ELSE [outAAType |-> reqAAType, outEdgeFlags |-> reqEdgeFlags]

GrResolveAATypeForQuad(reqAAType, reqEdgeFlags, aaHasEffect, knownQuadType) ==
    IF reqAAType = "none"
    THEN [outAAType |-> "none", outEdgeFlags |-> kNoneFlags]
    ELSE IF knownQuadType = kRect /\ ~aaHasEffect
         THEN [outAAType |-> "none", outEdgeFlags |-> kNoneFlags]
         ELSE [outAAType |-> reqAAType, outEdgeFlags |-> reqEdgeFlags]

\* aa: the arguments and the results of the last GrResolveAATypeForQuad call
AANone == [resolved |-> FALSE,
           requestedAAType |-> "none", requestedEdgeFlags |-> kNoneFlags,
           aaHasEffectOnRect |-> FALSE, knownQuadType |-> kRect,
           outAAType |-> "none", outEdgeFlags |-> kNoneFlags]

(***************************************************************************)
(* GrQuadTypeForTransformedRect(const SkMatrix&).  The header declares it  *)
(* and documents the four classes; the order of the tests is the one of    *)
(* the design document, section 4.1.  A matrix maps (x, y) to the          *)
(* homogeneous point (sx*x + kx*y, ky*x + sy*y, p0*x + p1*y + 1).          *)
(***************************************************************************)
Matrix(sx, kx, ky, sy, p0, p1) ==
    [sx |-> sx, kx |-> kx, ky |-> ky, sy |-> sy, p0 |-> p0, p1 |-> p1]

Identity == Matrix(1, 0, 0, 1, 0, 0)

Scale == Matrix(2, 0, 0, 3, 0, 0)

MirrorX == Matrix(-1, 0, 0, 1, 0, 0)

Rotate90 == Matrix(0, -1, 1, 0, 0, 0)

\* a rotation by 45 degrees, scaled by the square root of 2
Rotate45 == Matrix(1, -1, 1, 1, 0, 0)

Skew == Matrix(1, 1, 0, 1, 0, 0)

PerspX == Matrix(1, 0, 0, 1, 1, 0)

PerspRotate90 == Matrix(0, -1, 1, 0, 0, 1)

PerspSkew == Matrix(1, 1, 0, 1, 1, 0)

Matrices ==
    {Identity, Scale, MirrorX, Rotate90, Rotate45, Skew, PerspX, PerspRotate90,
     PerspSkew}

Coords == {0, 2}

\* The rectangles handed to the classifier, empty ones included.
ClassifyRects ==
    {[fLeft |-> l, fTop |-> t, fRight |-> r, fBottom |-> b] :
        l \in Coords, t \in Coords, r \in Coords, b \in Coords}

\* GrPerspQuad(const SkRect&, const SkMatrix&): the four corners of the rect
\* (top-left, bottom-left, top-right, bottom-right) mapped by the matrix.
MapRect(m, rect) ==
    LET q == GrQuadFromRect(rect)
    IN  [fX |-> [k \in 1..4 |-> m.sx * q.fX[k] + m.kx * q.fY[k]],
         fY |-> [k \in 1..4 |-> m.ky * q.fX[k] + m.sy * q.fY[k]],
         fW |-> [k \in 1..4 |-> m.p0 * q.fX[k] + m.p1 * q.fY[k] + 1]]

\* x(i)/w(i) == x(j)/w(j) and y(i)/w(i) == y(j)/w(j), corners counted from 1
SameX(q, i, j) == q.fX[i] * q.fW[j] = q.fX[j] * q.fW[i]

SameY(q, i, j) == q.fY[i] * q.fW[j] = q.fY[j] * q.fW[i]

\* x(0) == x(1) && x(2) == x(3) and y(0) == y(2) && y(1) == y(3), or under
\* mirrors x(0) == x(2) && x(1) == x(3) and y(0) == y(1) && y(2) == y(3)
IsRectQuad(q) ==
    \/ SameX(q, 1, 2) /\ SameX(q, 3, 4) /\ SameY(q, 1, 3) /\ SameY(q, 2, 4)
    \/ SameX(q, 1, 3) /\ SameX(q, 2, 4) /\ SameY(q, 1, 2) /\ SameY(q, 3, 4)

\* SkMatrix::rectStaysRect(): the matrix maps every rect to a rect
rectStaysRect(m) == \A rect \in ClassifyRects : IsRectQuad(MapRect(m, rect))

\* SkMatrix::hasPerspective(): a non-zero perspective term
matrixHasPerspective(m) == m.p0 # 0 \/ m.p1 # 0

\* The images of the two axes are not at a right angle.
matrixHasSkew(m) == m.sx * m.kx + m.ky * m.sy # 0

GrQuadTypeForTransformedRect_NoRectTest(matrix) ==
    IF ~matrixHasPerspective(matrix) /\ ~matrixHasSkew(matrix) THEN kRectilinear
    ELSE IF ~matrixHasPerspective(matrix) THEN kStandard
    ELSE kPerspective

GrQuadTypeForTransformedRect_SkewFirst(matrix) ==
    IF rectStaysRect(matrix) THEN kRect
    ELSE IF ~matrixHasSkew(matrix) THEN kRectilinear
    ELSE IF ~matrixHasPerspective(matrix) THEN kStandard
    ELSE kPerspective

GrQuadTypeForTransformedRect(matrix) ==
    IF rectStaysRect(matrix) THEN kRect
    ELSE IF ~matrixHasPerspective(matrix) /\ ~matrixHasSkew(matrix) THEN kRectilinear
    ELSE IF ~matrixHasPerspective(matrix) THEN kStandard
    ELSE kPerspective

\* classified: the arguments and the result of the last classification
NotClassified ==
    [called |-> FALSE, rect |-> RectA, matrix |-> Identity,
     quad |-> MapRect(Identity, RectA), type |-> kRect]

(***************************************************************************)
(* GrPerspQuad::bounds(GrQuadType).  A lane of an Sk4f is the fraction     *)
(* n / d with d # 0; the weights handed in are powers of two, for which    *)
(* the reciprocal and the products are exact in float arithmetic.          *)
(***************************************************************************)
Lane(n, d) == [n |-> n, d |-> d]

\* Sk4f::Load(const float[4])
Sk4f_Load(arr) == [k \in 1..4 |-> Lane(arr[k], 1)]

\* Sk4f::invert(): 1 / lane
Sk4f_invert(v) == [k \in 1..4 |-> Lane(v[k].d, v[k].n)]

\* Sk4f operator*
Sk4f_mul(v, u) == [k \in 1..4 |-> Lane(v[k].n * u[k].n, v[k].d * u[k].d)]

\* a <= b for lanes of positive or negative denominator
LaneLeq(a, b) ==
    IF a.d * b.d > 0 THEN a.n * b.d <= b.n * a.d ELSE a.n * b.d >= b.n * a.d

\* Sk4f::min() and Sk4f::max(): the least and the greatest lane
Sk4f_min(v) == v[CHOOSE k \in 1..4 : \A j \in 1..4 : LaneLeq(v[k], v[j])]

Sk4f_max(v) == v[CHOOSE k \in 1..4 : \A j \in 1..4 : LaneLeq(v[j], v[k])]

bounds_AlwaysDivides(q, type) ==
    LET iw == Sk4f_invert(Sk4f_Load(q.fW))
        x == Sk4f_mul(Sk4f_Load(q.fX), iw)
        y == Sk4f_mul(Sk4f_Load(q.fY), iw)
    IN  [fLeft |-> Sk4f_min(x), fTop |-> Sk4f_min(y),
         fRight |-> Sk4f_max(x), fBottom |-> Sk4f_max(y)]

bounds_NeverDivides(q, type) ==
    LET x == Sk4f_Load(q.fX)
        y == Sk4f_Load(q.fY)
    IN  [fLeft |-> Sk4f_min(x), fTop |-> Sk4f_min(y),
         fRight |-> Sk4f_max(x), fBottom |-> Sk4f_max(y)]

\* SkRect bounds(GrQuadType type) const
bounds(q, type) ==
    LET iw == Sk4f_invert(Sk4f_Load(q.fW))
        x == IF type = kPerspective
             THEN Sk4f_mul(Sk4f_Load(q.fX), iw) ELSE Sk4f_Load(q.fX)
        y == IF type = kPerspective
             THEN Sk4f_mul(Sk4f_Load(q.fY), iw) ELSE Sk4f_Load(q.fY)
    IN  [fLeft |-> Sk4f_min(x), fTop |-> Sk4f_min(y),
         fRight |-> Sk4f_max(x), fBottom |-> Sk4f_max(y)]

\* The quads handed to bounds: rects as mapped by three matrices, with
\* weights that are powers of two.
BoundsXYs == {XYOfQuad(MapRect(m, r)) : m \in {Identity, Rotate90, Skew}, r \in ClassifyRects}

BoundsWeights == {<<1, 1, 1, 1>>, <<2, 2, 2, 2>>, <<2, 1, 2, 4>>, <<4, 2, 1, 1>>}

\* bounded: the arguments and the result of the last bounds call
NotBounded ==
    [called |-> FALSE, quad |-> MapRect(Identity, RectA), type |-> kRect,
     rect |-> bounds(MapRect(Identity, RectA), kRect)]

Init ==
    /\ lists = [l \in ListIds |-> NewList]
    /\ lastOp = NoOp
    /\ maxDeclared = [l \in ListIds |-> kRect]
    /\ backfills = [l \in ListIds |-> 0]
    /\ pushedXY = [l \in ListIds |-> <<>>]
    /\ dropped = [l \in ListIds |-> {}]
    /\ aa = AANone
    /\ classified = NotClassified
    /\ bounded = NotBounded

Reserve(l) ==
    \E n \in ReserveCounts, forType \in GrQuadType :
        LET r == reserve(lists[l], n, forType)
        IN  /\ lists' = [lists EXCEPT ![l] = r.list]
            /\ lastOp' = [NoOp EXCEPT !.op = "reserve", !.dst = l, !.n = n,
                                      !.reserved = [fXYs |-> r.fXYs, fWs |-> r.fWs],
                                      !.prevCount = count(lists[l])]
            /\ UNCHANGED <<maxDeclared, backfills, pushedXY, dropped, aa, classified,
                           bounded>>

PushBackQuad(l) ==
    \E quad \in GrQuadInputs, type \in GrQuadType :
        /\ count(lists[l]) < MaxCount(l)
        /\ lists' = [lists EXCEPT ![l] = pushBackImplQuad(@, quad, type)]
        /\ lastOp' = [NoOp EXCEPT !.op = "push_back_quad", !.dst = l,
                                  !.type = type,
                                  !.quad = GrPerspQuadFromArrays(quad.fX, quad.fY,
                                                                 kNoPerspectiveWs),
                                  !.backfilled = Backfills(lists[l], type),
                                  !.prevCount = count(lists[l])]
        /\ maxDeclared' = [maxDeclared EXCEPT ![l] = MaxType(@, type)]
        /\ backfills' = [backfills EXCEPT
                            ![l] = IF Backfills(lists[l], type) THEN Bump(@) ELSE @]
        /\ pushedXY' = [pushedXY EXCEPT ![l] = Append(@, XYOf(quad))]
        /\ UNCHANGED <<dropped, aa, classified, bounded>>

PushBackPersp(l) ==
    \E quad \in GrPerspQuadInputs, type \in GrQuadType :
        /\ count(lists[l]) < MaxCount(l)
        /\ lists' = [lists EXCEPT ![l] = pushBackImplPersp(@, quad, type)]
        /\ lastOp' = [NoOp EXCEPT !.op = "push_back_persp", !.dst = l,
                                  !.type = type, !.quad = quad,
                                  !.backfilled = Backfills(lists[l], type),
                                  !.prevCount = count(lists[l])]
        /\ maxDeclared' = [maxDeclared EXCEPT ![l] = MaxType(@, type)]
        /\ backfills' = [backfills EXCEPT
                            ![l] = IF Backfills(lists[l], type) THEN Bump(@) ELSE @]
        /\ pushedXY' = [pushedXY EXCEPT ![l] = Append(@, XYOf(quad))]
        /\ dropped' = [dropped EXCEPT
                          ![l] = IF /\ hasPerspective(quad)
                                    /\ lists[l].fType < kPerspective
                                    /\ type < kPerspective
                                 THEN @ \cup {count(lists[l])} ELSE @]
        /\ UNCHANGED <<aa, classified, bounded>>

Concat(l, m) ==
    /\ l # m
    /\ count(lists[l]) + count(lists[m]) <= MaxCount(l)
    /\ lists' = [lists EXCEPT ![l] = concatImpl(@, lists[m])]
    /\ lastOp' = [NoOp EXCEPT !.op = "concat", !.dst = l,
                              !.type = lists[m].fType,
                              !.backfilled = Backfills(lists[l], lists[m].fType),
                              !.prevCount = count(lists[l]),
                              !.thatCount = count(lists[m])]
    /\ maxDeclared' = [maxDeclared EXCEPT ![l] = MaxType(@, lists[m].fType)]
    /\ backfills' = [backfills EXCEPT
                        ![l] = IF Backfills(lists[l], lists[m].fType)
                               THEN Bump(@) ELSE @]
    /\ pushedXY' = [pushedXY EXCEPT ![l] = @ \o pushedXY[m]]
    /\ dropped' = [dropped EXCEPT
                      ![l] = @ \cup {count(lists[l]) + i : i \in dropped[m]}]
    /\ UNCHANGED <<aa, classified, bounded>>

Next ==
    \/ \E l \in ListIds : Reserve(l)
    \/ \E l \in ListIds : PushBackQuad(l)
    \/ \E l \in ListIds : PushBackPersp(l)
    \/ \E l \in ListIds, m \in ListIds : Concat(l, m)

Spec == Init /\ [][Next]_vars

(***************************************************************************)
(* The resolver, applied to every request.                                 *)
(***************************************************************************)
ResolveAA ==
    \E req \in GrAAType, flags \in GrQuadAAFlags, effect \in BOOLEAN,
       known \in GrQuadType :
        LET out == GrResolveAATypeForQuad(req, flags, effect, known)
        IN  /\ aa' = [resolved |-> TRUE,
                      requestedAAType |-> req, requestedEdgeFlags |-> flags,
                      aaHasEffectOnRect |-> effect, knownQuadType |-> known,
                      outAAType |-> out.outAAType,
                      outEdgeFlags |-> out.outEdgeFlags]
            /\ UNCHANGED <<lists, lastOp, maxDeclared, backfills, pushedXY, dropped, classified, bounded>>

NextAA == ResolveAA

SpecAA == Init /\ [][NextAA]_vars

(***************************************************************************)
(* The classifier, applied to every matrix and rect.                       *)
(***************************************************************************)
Classify ==
    \E rect \in ClassifyRects, matrix \in Matrices :
        /\ classified' = [called |-> TRUE, rect |-> rect, matrix |-> matrix,
                          quad |-> MapRect(matrix, rect),
                          type |-> GrQuadTypeForTransformedRect(matrix)]
        /\ UNCHANGED <<lists, lastOp, maxDeclared, backfills, pushedXY, dropped, aa, bounded>>

NextClassify == Classify

SpecClassify == Init /\ [][NextClassify]_vars

(***************************************************************************)
(* bounds, applied to every quad and type.                                 *)
(***************************************************************************)
Bounds ==
    \E xy \in BoundsXYs, ws \in BoundsWeights, type \in GrQuadType :
        LET q == GrPerspQuadFromArrays(xy.fX, xy.fY, ws)
        IN  /\ bounded' = [called |-> TRUE, quad |-> q, type |-> type,
                           rect |-> bounds(q, type)]
            /\ UNCHANGED <<lists, lastOp, maxDeclared, backfills, pushedXY, dropped, aa, classified>>

NextBounds == Bounds

SpecBounds == Init /\ [][NextBounds]_vars

(***************************************************************************)
(* Properties of the quad list.                                            *)
(***************************************************************************)
Other(l) == IF l = "A" THEN "B" ELSE "A"

IsPush == lastOp.op \in {"push_back_quad", "push_back_persp"}

\* The list an operation acted on and, for concat, the list it appended.
Dst == lists[lastOp.dst]

That == lists[Other(lastOp.dst)]

\* C1: quadType() of a list is the maximum of kRect, every declared type
\* pushed and the type of every list concatenated, and it never decreases
\* from one operation to the next.
C1_QuadTypeIsJoin ==
    /\ [](\A l \in ListIds : quadType(lists[l]) = maxDeclared[l])
    /\ [][\A l \in ListIds : quadType(lists[l])' >= quadType(lists[l])]_vars

C1_Witness ==
    /\ lastOp.op = "push_back_quad" /\ lastOp.dst = "A" /\ lastOp.type = kRect
    /\ quadType(lists["A"]) = kStandard
    /\ count(lists["A"]) = 2

\* C2: the weight array holds 4 * count() values when the list is
\* kPerspective and no value when it is below kPerspective.
C2_WeightCount ==
    \A l \in ListIds :
        IF quadType(lists[l]) = kPerspective
        THEN Len(lists[l].fWs) = 4 * count(lists[l])
        ELSE Len(lists[l].fWs) = 0

C2_Witness ==
    /\ lastOp.op = "push_back_quad" /\ lastOp.type = kRect
    /\ quadType(Dst) = kPerspective
    /\ count(Dst) = 2
    /\ Len(Dst.fWs) = 8

\* C3: A.concat(B) leaves A with type max(tA, tB) and count(A) + count(B)
\* entries, and A[count(A) + i] reads the same x, y and w as B[i].
C3_ConcatAppends ==
    [][lastOp'.op = "concat" =>
        LET A == lists[lastOp'.dst]
            B == lists[Other(lastOp'.dst)]
            R == lists'[lastOp'.dst]
        IN  /\ quadType(R) = MaxType(quadType(A), quadType(B))
            /\ count(R) = count(A) + count(B)
            /\ \A i \in 0..(count(B) - 1) : At(R, count(A) + i) = At(B, i)]_vars

C3_Witness ==
    /\ lastOp.op = "concat" /\ lastOp.backfilled
    /\ lastOp.prevCount = 1 /\ lastOp.thatCount = 1
    /\ At(Dst, 1).fW = <<2, 1, 2, 4>>

\* C4: a push_back with declared type kPerspective into a list below
\* kPerspective leaves the list kPerspective, and every entry that was
\* already there reads w = 1 at all 4 corners and the x and y pushed.
C4_BackfillOnes ==
    (IsPush /\ lastOp.type = kPerspective /\ lastOp.backfilled) =>
        /\ quadType(Dst) = kPerspective
        /\ count(Dst) = lastOp.prevCount + 1
        /\ \A i \in 0..(lastOp.prevCount - 1) :
              /\ At(Dst, i).fW = <<1, 1, 1, 1>>
              /\ XYOf(At(Dst, i)) = pushedXY[lastOp.dst][i + 1]

C4_Witness ==
    /\ lastOp.op = "push_back_persp" /\ lastOp.type = kPerspective
    /\ lastOp.backfilled
    /\ lastOp.prevCount = 1
    /\ lastOp.quad.fW = <<2, 1, 2, 4>>
    /\ maxDeclared[lastOp.dst] = kPerspective

\* C5: A.concat(B) loses no weight: if A or B is kPerspective so is the
\* result, entries of the side below kPerspective read w = 1, entries of the
\* kPerspective side read the weights they read before, and every A[i]
\* reads the same x, y and w as before.
C5_ConcatKeepsWeights ==
    [][lastOp'.op = "concat" =>
        LET A == lists[lastOp'.dst]
            B == lists[Other(lastOp'.dst)]
            R == lists'[lastOp'.dst]
        IN  /\ (quadType(A) = kPerspective \/ quadType(B) = kPerspective)
                  => quadType(R) = kPerspective
            /\ \A i \in 0..(count(A) - 1) :
                  /\ At(R, i) = At(A, i)
                  /\ quadType(A) < kPerspective => At(R, i).fW = <<1, 1, 1, 1>>
            /\ \A i \in 0..(count(B) - 1) :
                  /\ At(R, count(A) + i).fW = At(B, i).fW
                  /\ quadType(B) < kPerspective
                        => At(R, count(A) + i).fW = <<1, 1, 1, 1>>]_vars

C5_Witness ==
    /\ lastOp.op = "concat" /\ ~lastOp.backfilled
    /\ quadType(Dst) = kPerspective /\ quadType(That) < kPerspective
    /\ lastOp.prevCount = 1 /\ lastOp.thatCount = 1
    /\ At(Dst, 0).fW = <<2, 1, 2, 4>>
    /\ Len(Dst.fWs) = 8

\* C6: after push_back(q, kPerspective) of a GrPerspQuad q the last entry
\* reads q's x, y and w; in a list below kPerspective every entry reads
\* w = 1 at all 4 corners and has no perspective.
C6_RoundTrip ==
    /\ (lastOp.op = "push_back_persp" /\ lastOp.type = kPerspective)
          => At(Dst, count(Dst) - 1) = lastOp.quad
    /\ \A l \in ListIds :
          quadType(lists[l]) < kPerspective =>
              \A i \in 0..(count(lists[l]) - 1) :
                  /\ At(lists[l], i).fW = <<1, 1, 1, 1>>
                  /\ ~hasPerspective(At(lists[l], i))

C6_Witness ==
    /\ lastOp.op = "push_back_persp" /\ lastOp.type = kPerspective
    /\ lastOp.prevCount = 1
    /\ hasPerspective(lastOp.quad)
    /\ hasPerspective(At(Dst, 1))
    /\ count(That) = 1 /\ quadType(That) = kStandard

\* C7: push_back adds exactly one entry, no operation removes one, and every
\* entry that was there reads the same x, y and w afterwards, also when the
\* push_back upgrades the list to kPerspective (a list a step leaves as it
\* was satisfies this at once).
C7_AppendOnly ==
    [][/\ \A l \in ListIds :
             lists'[l] # lists[l] =>
                 /\ count(lists'[l]) >= count(lists[l])
                 /\ \A i \in 0..(count(lists[l]) - 1) :
                       At(lists'[l], i) = At(lists[l], i)
       /\ lastOp'.op \in {"push_back_quad", "push_back_persp"}
             => count(lists'[lastOp'.dst]) = count(lists[lastOp'.dst]) + 1]_vars

C7_Witness ==
    /\ lastOp.op = "push_back_quad" /\ lastOp.type = kPerspective
    /\ lastOp.backfilled
    /\ lastOp.prevCount = 1
    /\ count(Dst) = 2
    /\ At(Dst, 0).fW = <<1, 1, 1, 1>>

\* C8: the backfill branch of upgradeType runs at most once per list, in the
\* operation that first raises the list to kPerspective; from then on the
\* list stays kPerspective and its weights stay materialized.
C8_BackfillOnce ==
    /\ [](\A l \in ListIds : backfills[l] <= 1)
    /\ [][\A l \in ListIds :
             /\ backfills'[l] # backfills[l]
                   <=> (quadType(lists[l]) < kPerspective
                        /\ quadType(lists'[l]) = kPerspective)
             /\ quadType(lists[l]) = kPerspective
                   => /\ quadType(lists'[l]) = kPerspective
                      /\ Len(lists'[l].fWs) = 4 * count(lists'[l])]_vars

C8_Witness ==
    /\ IsPush /\ lastOp.type = kPerspective /\ ~lastOp.backfilled
    /\ backfills[lastOp.dst] = 1
    /\ lastOp.prevCount = 1

(***************************************************************************)
(* Properties of the resolver.                                             *)
(***************************************************************************)
\* C9: a kRect quad on which anti-aliasing has no effect resolves to "none"
\* and no edge flags, whatever was requested.
C9_RectWithoutEffect ==
    (aa.resolved /\ aa.knownQuadType = kRect /\ ~aa.aaHasEffectOnRect) =>
        /\ aa.outAAType = "none"
        /\ aa.outEdgeFlags = kNoneFlags

C9_Witness ==
    /\ aa.resolved /\ aa.knownQuadType = kRect /\ ~aa.aaHasEffectOnRect
    /\ aa.requestedAAType = "coverage" /\ aa.requestedEdgeFlags = kAllFlags
    /\ aa.outAAType = "none"

\* C10 as stated: a quad above kRect resolves to the requested type and
\* the requested edge flags, whatever was requested.
C10_Original ==
    (aa.resolved /\ aa.knownQuadType > kRect) =>
        /\ aa.outAAType = aa.requestedAAType
        /\ aa.outEdgeFlags = aa.requestedEdgeFlags

\* C10: a quad above kRect resolves to the requested type, and to the
\* requested edge flags unless the requested type is "none".
C10_PassThrough ==
    (aa.resolved /\ aa.knownQuadType > kRect) =>
        /\ aa.outAAType = aa.requestedAAType
        /\ aa.requestedAAType # "none"
              => aa.outEdgeFlags = aa.requestedEdgeFlags

C10_Witness ==
    /\ aa.resolved /\ aa.knownQuadType = kStandard /\ ~aa.aaHasEffectOnRect
    /\ aa.requestedAAType = "coverage" /\ aa.requestedEdgeFlags = kAllFlags
    /\ aa.outAAType = "coverage" /\ aa.outEdgeFlags = kAllFlags

\* C11: a requested "none" resolves to "none" and no edge flags, for every
\* quad type and every requested edge-flag set.
C11_NoneClearsFlags ==
    (aa.resolved /\ aa.requestedAAType = "none") =>
        /\ aa.outAAType = "none"
        /\ aa.outEdgeFlags = kNoneFlags

C11_Witness ==
    /\ aa.resolved /\ aa.requestedAAType = "none"
    /\ aa.knownQuadType = kPerspective /\ aa.aaHasEffectOnRect
    /\ aa.requestedEdgeFlags = kAllFlags
    /\ aa.outEdgeFlags = kNoneFlags

Satisfies(m, t) ==
    CASE t = kRect -> rectStaysRect(m)
      [] t = kRectilinear -> ~matrixHasSkew(m) /\ ~matrixHasPerspective(m)
      [] t = kStandard -> ~matrixHasPerspective(m)
      [] OTHER -> TRUE

FirstSatisfied(m) ==
    CHOOSE t \in GrQuadType :
        Satisfies(m, t) /\ \A u \in GrQuadType : u < t => ~Satisfies(m, u)

\* C13 as stated: a pure 90-degree rotation is classified kRectilinear, and
\* the type returned is the first whose condition the matrix satisfies.
C13_Original ==
    classified.called =>
        /\ classified.matrix = Rotate90 => classified.type = kRectilinear
        /\ classified.type = FirstSatisfied(classified.matrix)

\* C13: the type returned is the first of kRect, kRectilinear, kStandard,
\* kPerspective whose condition the matrix satisfies: a pure 90-degree
\* rotation maps every rect to a rect and is classified kRect, and a matrix
\* without perspective and skew that does not keep rects (a 45-degree
\* rotation) is classified kRectilinear, not kStandard.
C13_FirstMatch ==
    classified.called =>
        /\ classified.type = FirstSatisfied(classified.matrix)
        /\ classified.matrix = Rotate90 => classified.type = kRect
        /\ (/\ ~matrixHasPerspective(classified.matrix)
            /\ ~matrixHasSkew(classified.matrix)
            /\ ~rectStaysRect(classified.matrix))
              => classified.type = kRectilinear

C13_Witness ==
    /\ classified.called
    /\ classified.matrix = Rotate90
    /\ classified.rect = [fLeft |-> 0, fTop |-> 0, fRight |-> 2, fBottom |-> 2]
    /\ classified.quad.fX = <<0, -2, 0, -2>>
    /\ classified.quad.fY = <<0, 0, 2, 2>>
    /\ classified.type = kRect

(***************************************************************************)
(* Properties of bounds.                                                   *)
(***************************************************************************)
IntMin(S) == CHOOSE m \in S : \A n \in S : m <= n

IntMax(S) == CHOOSE m \in S : \A n \in S : m >= n

\* The min/max box of the points (xs[k] / div, ys[k] / div); div divides
\* every coordinate.
BoxOf(xs, ys, div) ==
    [fLeft |-> IntMin({xs[k] \div div : k \in 1..4}),
     fTop |-> IntMin({ys[k] \div div : k \in 1..4}),
     fRight |-> IntMax({xs[k] \div div : k \in 1..4}),
     fBottom |-> IntMax({ys[k] \div div : k \in 1..4})]

\* The SkRect of lanes r has the edges of the integer box.
SameRect(r, box) ==
    /\ r.fLeft.n = box.fLeft * r.fLeft.d
    /\ r.fTop.n = box.fTop * r.fTop.d
    /\ r.fRight.n = box.fRight * r.fRight.d
    /\ r.fBottom.n = box.fBottom * r.fBottom.d

\* C14: bounds divides by w only for kPerspective: with weights (2,2,2,2)
\* it is the box of (x/2, y/2), with weights 1 it is the box of (x, y), and
\* for a type below kPerspective it is the box of (x, y) whatever the weights.
C14_BoundsDivideOnlyForPerspective ==
    bounded.called =>
        LET q == bounded.quad
        IN  /\ (bounded.type = kPerspective /\ q.fW = <<2, 2, 2, 2>>)
                  => SameRect(bounded.rect, BoxOf(q.fX, q.fY, 2))
            /\ (bounded.type = kPerspective /\ q.fW = <<1, 1, 1, 1>>)
                  => SameRect(bounded.rect, BoxOf(q.fX, q.fY, 1))
            /\ bounded.type < kPerspective
                  => SameRect(bounded.rect, BoxOf(q.fX, q.fY, 1))

C14_Witness ==
    /\ bounded.called
    /\ bounded.type = kPerspective
    /\ bounded.quad.fW = <<2, 2, 2, 2>>
    /\ bounded.quad.fX = <<0, -2, 0, -2>>
    /\ bounded.quad.fY = <<0, 0, 2, 2>>
    /\ SameRect(bounded.rect, [fLeft |-> -1, fTop |-> 0, fRight |-> 0, fBottom |-> 1])

(***************************************************************************)
(* Further properties of the quad list.                                    *)
(***************************************************************************)
\* C15: reserve(n, forType) changes no count, no type, no stored weight and
\* no entry; on a list below kPerspective it leaves the weight array empty
\* and the type below kPerspective, also for forType kPerspective.
C15_ReserveChangesNothing ==
    [][lastOp'.op = "reserve" =>
        \A l \in ListIds :
            /\ count(lists'[l]) = count(lists[l])
            /\ quadType(lists'[l]) = quadType(lists[l])
            /\ Len(lists'[l].fWs) = Len(lists[l].fWs)
            /\ \A i \in 0..(count(lists[l]) - 1) : At(lists'[l], i) = At(lists[l], i)
            /\ quadType(lists[l]) < kPerspective
                  => /\ Len(lists'[l].fWs) = 0
                     /\ quadType(lists'[l]) < kPerspective]_vars

C15_Witness ==
    /\ lastOp.op = "reserve" /\ lastOp.n = 2
    /\ lastOp.reserved = [fXYs |-> 2, fWs |-> 8]
    /\ quadType(Dst) = kStandard
    /\ count(Dst) = 1
    /\ Len(Dst.fWs) = 0

\* C16: a GrPerspQuad pushed with a declared type below kPerspective into a
\* list below kPerspective loses its weights: the entry reads w = 1 at once
\* and still reads w = 1 after the list is upgraded to kPerspective; pushed
\* into a list that is already kPerspective, its weights are stored as given.
C16_UnderstatedTypeDropsWeights ==
    /\ (/\ lastOp.op = "push_back_persp" /\ lastOp.type < kPerspective
        /\ quadType(Dst) < kPerspective)
          => At(Dst, count(Dst) - 1).fW = <<1, 1, 1, 1>>
    /\ \A l \in ListIds : \A i \in dropped[l] :
          /\ i < count(lists[l])
          /\ At(lists[l], i).fW = <<1, 1, 1, 1>>
    /\ (/\ lastOp.op = "push_back_persp" /\ lastOp.type < kPerspective
        /\ quadType(Dst) = kPerspective)
          => At(Dst, count(Dst) - 1) = lastOp.quad

C16_Witness ==
    /\ lastOp.op \in {"push_back_quad", "push_back_persp", "concat"}
    /\ lastOp.backfilled
    /\ quadType(Dst) = kPerspective
    /\ 0 \in dropped[lastOp.dst]
    /\ At(Dst, 0).fW = <<1, 1, 1, 1>>
    /\ count(Dst) = 2

\* The list obtained by pushing B[i], B[i + 1], ..., B[count(B) - 1] onto L,
\* each with declared type B.quadType().
RECURSIVE PushAllFrom(_, _, _)
PushAllFrom(L, B, i) ==
    IF i >= count(B)
    THEN L
    ELSE PushAllFrom(pushBackImplPersp(L, At(B, i), quadType(B)), B, i + 1)

\* C17: A.concat(B) gives the list that pushing B[0], B[1], ... onto A with
\* declared type B.quadType() gives (same count, type, number of stored
\* weights and entries), and leaves B as it was.
C17_ConcatIsRepeatedPushBack ==
    [][lastOp'.op = "concat" =>
        LET B == lists[Other(lastOp'.dst)]
            R == lists'[lastOp'.dst]
            P == PushAllFrom(lists[lastOp'.dst], B, 0)
        IN  /\ count(R) = count(P)
            /\ quadType(R) = quadType(P)
            /\ Len(R.fWs) = Len(P.fWs)
            /\ \A i \in 0..(count(R) - 1) : At(R, i) = At(P, i)
            /\ lists'[Other(lastOp'.dst)] = B]_vars

C17_Witness ==
    /\ lastOp.op = "concat"
    /\ lastOp.prevCount = 0 /\ lastOp.thatCount = 2
    /\ quadType(That) = kPerspective
    /\ ~hasPerspective(At(Dst, 0))
    /\ hasPerspective(At(Dst, 1))

\* C18: a list without entries is kRect and stores no weight, and so is a
\* newly constructed list.
C18_EmptyListIsRect ==
    /\ \A l \in ListIds :
          count(lists[l]) = 0 =>
              quadType(lists[l]) = kRect /\ Len(lists[l].fWs) = 0
    /\ lastOp.op = "new" =>
          \A l \in ListIds : count(lists[l]) = 0 /\ quadType(lists[l]) = kRect

C18_Witness ==
    /\ lastOp.op = "reserve" /\ lastOp.reserved = [fXYs |-> 2, fWs |-> 8]
    /\ count(Dst) = 0
    /\ quadType(Dst) = kRect
    /\ count(That) = 2 /\ quadType(That) = kPerspective

====
